---- MODULE Spec2Model ----
(***************************************************************************)
(* The Smoosher of interp/src/stk_env.rs: a stack of environments          *)
(* (VecDeque<Rc<RefCell<HashMap<K, V>>>>) plus a flattened HashMap hm that *)
(* get reads.  Frames are reference-counted cells: two stacks may hold the *)
(* same cell, and a write through one is a write to the cell.              *)
(*                                                                         *)
(* Only the code that is live in the source is modelled.  Smoosher::set is *)
(* commented out (lines 132-140), so the write path is                     *)
(* write_access().set(k, v), which leaves hm alone; new_scope, smoosh,     *)
(* merge and diff are todo!() and panic when called.  fork takes the front *)
(* Rc of self into the new deque: both Smooshers then hold the same cell.  *)
(***************************************************************************)
EXTENDS Integers, Sequences, FiniteSets, TLC

\* K and V of Smoosher<K, V>: the keys and values the operations are tried on.
Keys == {"r", "flag"}
Values == {5, 7}

\* Bounds of the model: how many Smooshers and how many frames a run may allocate.
MaxStacks == 3
MaxCells == 2
\* The largest frame index a run passes to smoosh and diff.
MaxIdx == 1
\* The same for the runs of a parallel region: an origin and three forks of it, two of
\* which push a frame of their own.
ParStacks == 4
ParCells == 3

VARIABLES
    heap,    \* the Rc<RefCell<HashMap<K, V>>> cells allocated so far; a cell's id is its index
    stacks,  \* the Smooshers constructed so far: [ds |-> cell ids, front first, hm |-> HashMap]
    status   \* Running, or Panicked(call) once a panic!/todo!/unwrap in call has aborted the run

vars == <<heap, stacks, status>>

\* How a run stands: it goes on, or a panic in the named call has ended it.
Running == <<"running">>
Panicked(call) == <<"panicked", call>>

\* Option<V>
None == <<>>
Some(v) == <<v>>

\* HashMap::new()
HashMap_new == [x \in {} |-> 0]

\* HashMap::insert(k, v)
HashMap_insert(hm, k, v) == [x \in (DOMAIN hm) \cup {k} |-> IF x = k THEN v ELSE hm[x]]

\* HashMap::get(k)
HashMap_get(hm, k) == IF k \in DOMAIN hm THEN Some(hm[k]) ELSE None

StackIds == 1..Len(stacks)

\* SmoosherWr::set: inserts the binding into the HashMap the writer holds.
SmoosherWr_set(wr, k, v) == HashMap_insert(wr, k, v)

\* SmoosherRd::get: the first HashMap of rd, in order, that binds k.
RECURSIVE SmoosherRd_get(_, _)
SmoosherRd_get(rd, k) ==
    IF rd = <<>> THEN None
    ELSE IF HashMap_get(Head(rd), k) # None THEN HashMap_get(Head(rd), k)
    ELSE SmoosherRd_get(Tail(rd), k)

\* The HashMaps behind the cells of a deque, front first.
Frames(ds) == [i \in 1..Len(ds) |-> heap[ds[i]]]

\* Smoosher::read_access: a reader over self.ds.range(1..).
read_access(s) == Frames(SubSeq(stacks[s].ds, 2, Len(stacks[s].ds)))

\* What the frames of a deque resolve k to: the binding of the shallowest frame that has one.
Resolve(ds, k) == SmoosherRd_get(Frames(ds), k)

\* A get that resolves through the frames of the deque instead of hm.
get_by_frames(s, k) == Resolve(stacks[s].ds, k)

\* Smoosher::get: self.hm.get(k).
get(s, k) == HashMap_get(stacks[s].hm, k)

\* Smoosher::num_scopes: self.ds.len().
num_scopes(s) == Len(stacks[s].ds)

\* Smoosher::num_bindings: self.hm.len().
num_bindings(s) == Cardinality(DOMAIN stacks[s].hm)

\* A write_access that hands out the back of the deque.
write_access_back(s) == stacks[s].ds[Len(stacks[s].ds)]

\* Smoosher::write_access: a writer on self.ds.front(); 0 stands for the None arm.
write_access(s) == IF Len(stacks[s].ds) = 0 THEN 0 ELSE stacks[s].ds[1]

\* Smoosher::list_bound_vars: bottom_i becomes the length of the deque when it is greater
\* than the length and top_i otherwise; the keys of the frames top_i <= i < bottom_i.
list_bound_vars(s, top_i, bottom_i) ==
    LET len == Len(stacks[s].ds)
        bottom == IF bottom_i > len THEN len ELSE top_i
        top == IF top_i < 0 THEN 0 ELSE top_i
    IN UNION {DOMAIN heap[stacks[s].ds[i + 1]] : i \in top..(bottom - 1)}

Init ==
    /\ heap = <<HashMap_new>>
    /\ stacks = <<[ds |-> <<1>>, hm |-> HashMap_new]>>
    /\ status = Running

\* panic!(), todo!() and unwrap() on None: the call does not return, the run ends and
\* unwinding drops every Smoosher and every frame.
Panic(call) ==
    /\ status' = Panicked(call)
    /\ heap' = <<>>
    /\ stacks' = <<>>

\* Smoosher::new(k, v): one fresh empty frame and an empty hm; k and v are not used.
new(k, v) ==
    /\ status = Running
    /\ heap' = Append(heap, HashMap_new)
    /\ stacks' = Append(stacks, [ds |-> <<Len(heap) + 1>>, hm |-> HashMap_new])
    /\ UNCHANGED status

\* write_access().set(k, v): the binding goes into the cell at the front of the deque.
write_access_set(s, k, v) ==
    /\ status = Running
    /\ LET c == write_access(s)
       IN IF c = 0
          THEN Panic("write_access")
          ELSE /\ heap' = [heap EXCEPT ![c] = SmoosherWr_set(heap[c], k, v)]
               /\ UNCHANGED <<stacks, status>>

\* Smoosher::push_new: push_front of a fresh empty frame.
push_new(s) ==
    /\ status = Running
    /\ heap' = Append(heap, HashMap_new)
    /\ stacks' = [stacks EXCEPT ![s].ds = <<Len(heap) + 1>> \o @]
    /\ UNCHANGED status

\* A fork that leaves the front cell of self out of the new deque.
fork_empty(s) ==
    /\ status = Running
    /\ stacks' = Append(stacks, [ds |-> <<>>, hm |-> HashMap_new])
    /\ UNCHANGED <<heap, status>>

\* Smoosher::fork: a new Smoosher whose deque holds the front cell of self, and an empty hm.
fork(s) ==
    /\ status = Running
    /\ IF Len(stacks[s].ds) = 0
       THEN Panic("fork")
       ELSE /\ stacks' = Append(stacks, [ds |-> <<stacks[s].ds[1]>>, hm |-> HashMap_new])
            /\ UNCHANGED <<heap, status>>

\* Smoosher::new_scope: todo!(), which panics.
new_scope(s) ==
    /\ status = Running
    /\ Panic("new_scope")

\* Smoosher::smoosh: todo!(), which panics whatever the range.
smoosh(s, top_i, bottom_i) ==
    /\ status = Running
    /\ Panic("smoosh")

\* Smoosher::merge: todo!(), which panics and returns no Smoosher.
merge(s, other) ==
    /\ status = Running
    /\ Panic("merge")

\* Smoosher::diff: todo!(), which panics.
diff(s, top_i, bottom_i) ==
    /\ status = Running
    /\ Panic("diff")

\* The calls a run may make next, with at most ms Smooshers and mc frames allocated and
\* frame indices up to MaxIdx.
Calls(ms, mc) ==
    \/ \E k \in Keys, v \in Values : Len(stacks) < ms /\ Len(heap) < mc /\ new(k, v)
    \/ \E s \in StackIds, k \in Keys, v \in Values : write_access_set(s, k, v)
    \/ \E s \in StackIds : Len(heap) < mc /\ push_new(s)
    \/ \E s \in StackIds : Len(stacks) < ms /\ fork(s)
    \/ \E s \in StackIds : new_scope(s)
    \/ \E s \in StackIds, top_i \in 0..MaxIdx, bottom_i \in 0..MaxIdx : smoosh(s, top_i, bottom_i)
    \/ \E s \in StackIds, other \in StackIds : merge(s, other)
    \/ \E s \in StackIds, top_i \in 0..MaxIdx, bottom_i \in 0..MaxIdx : diff(s, top_i, bottom_i)

Next == Calls(MaxStacks, MaxCells)

Spec == Init /\ [][Next]_vars

NextPar == Calls(ParStacks, ParCells)

SpecPar == Init /\ [][NextPar]_vars

(***************************************************************************)
(* Properties of the environment stack.                                    *)
(***************************************************************************)

\* Two Smooshers hold a common frame: one is a fork of the other, or both are forks of a third.
SharesFrame(a, b) ==
    \E i \in 1..Len(stacks[a].ds), j \in 1..Len(stacks[b].ds) : stacks[a].ds[i] = stacks[b].ds[j]

\* A step that changes the bindings of a frame: what a write that returns does.
FrameWritten == Len(heap') = Len(heap) /\ heap' # heap

LookupInvariant ==
    \A s \in StackIds, k \in Keys : get(s, k) = Resolve(stacks[s].ds, k)

\* C5: write invariant. A write changes only the frame at index 0 of the Smoosher it is made
\* on: the deque keeps its frames, and every frame at index >= 1 keeps its bindings,
\* a binding of the written key included.
WriteInvariant ==
    [][FrameWritten =>
         \A s \in StackIds, k \in Keys, v \in Values :
             write_access_set(s, k, v) =>
                 /\ stacks'[s].ds = stacks[s].ds
                 /\ \A i \in 2..Len(stacks[s].ds) :
                        heap'[stacks[s].ds[i]] = heap[stacks[s].ds[i]]
                 /\ HashMap_get(heap'[stacks[s].ds[1]], k) = Some(v)]_vars

\* A Smoosher of two frames whose front frame binds a key that the frame below binds to
\* another value: the write shadowed the deeper binding and left it in place.
WriteInvariantWitness ==
    /\ status = Running
    /\ \E s \in StackIds, k \in Keys :
          /\ Len(stacks[s].ds) >= 2
          /\ k \in DOMAIN heap[stacks[s].ds[1]]
          /\ k \in DOMAIN heap[stacks[s].ds[2]]
          /\ heap[stacks[s].ds[1]][k] # heap[stacks[s].ds[2]][k]

\* C6: set/get round trip. After a write of (k, v) on a Smoosher, get(k) on that Smoosher
\* is Some(v).
SetGetRoundTrip ==
    [][\A s \in StackIds, k \in Keys, v \in Values :
         write_access_set(s, k, v) => get(s, k)' = Some(v)]_vars

\* The index in a's deque of the first frame that b's deque holds too: the point of
\* divergence; one past the end when they share none.
PointOfDivergence(a, b) ==
    LET shared == {i \in 1..Len(stacks[a].ds) :
                      \E j \in 1..Len(stacks[b].ds) : stacks[a].ds[i] = stacks[b].ds[j]}
    IN IF shared = {} THEN Len(stacks[a].ds) + 1
       ELSE CHOOSE i \in shared : \A j \in shared : i <= j

\* What a wrote to k above its point of divergence from b, None when it wrote nothing there.
WrittenAbove(a, b, k) == Resolve(SubSeq(stacks[a].ds, 1, PointOfDivergence(a, b) - 1), k)

\* What the frames a shares with b resolve k to.
AncestorView(a, b, k) ==
    Resolve(SubSeq(stacks[a].ds, PointOfDivergence(a, b), Len(stacks[a].ds)), k)

\* Both sides wrote k above the point of divergence, with different values.
Conflict(a, b, k) ==
    /\ WrittenAbove(a, b, k) # None
    /\ WrittenAbove(b, a, k) # None
    /\ WrittenAbove(a, b, k) # WrittenAbove(b, a, k)

\* The failure merge is to report for key k.
MergeConflict(k) == <<"MergeConflict", k>>

\* C2: merge conflict detection. When two Smooshers forked from a common ancestor have both
\* written a key above the point of divergence with different values, merge fails with
\* MergeConflict naming such a key and returns no merged Smoosher.
MergeConflictDetected ==
    [][\A a \in StackIds, b \in StackIds :
         (/\ a # b
          /\ SharesFrame(a, b)
          /\ \E k \in Keys : Conflict(a, b, k)
          /\ merge(a, b))
         => /\ \E k \in Keys : Conflict(a, b, k) /\ status' = MergeConflict(k)
            /\ stacks' = stacks]_vars

\* C3: merge success is the union of writes. When two Smooshers forked from a common ancestor
\* conflict on no key, merge succeeds and returns a Smoosher whose get(k) is the value written
\* on either side, and the common ancestor's view of k when neither side wrote k.
MergeIsUnionOfWrites ==
    [][\A a \in StackIds, b \in StackIds :
         (/\ a # b
          /\ SharesFrame(a, b)
          /\ \A k \in Keys : ~Conflict(a, b, k)
          /\ merge(a, b))
         => /\ status' = Running
            /\ Len(stacks') = Len(stacks) + 1
            /\ \A k \in Keys :
                   HashMap_get(stacks'[Len(stacks')].hm, k) =
                       IF WrittenAbove(a, b, k) # None THEN WrittenAbove(a, b, k)
                       ELSE IF WrittenAbove(b, a, k) # None THEN WrittenAbove(b, a, k)
                       ELSE AncestorView(a, b, k)]_vars

\* top_i <= bottom_i, both indices of frames of s.
ValidRange(s, top_i, bottom_i) == top_i <= bottom_i /\ bottom_i < num_scopes(s)

\* C7: smoosh precedence. After smoosh(top_i, bottom_i) on a valid range the frame that
\* replaces frames top_i..bottom_i binds exactly the keys those frames bound, each to the
\* value of the shallowest of them that bound it.
SmooshPrecedence ==
    [][\A s \in StackIds, top_i \in 0..MaxIdx, bottom_i \in 0..MaxIdx :
         (ValidRange(s, top_i, bottom_i) /\ smoosh(s, top_i, bottom_i))
         => /\ status' = Running
            /\ LET folded == SubSeq(stacks[s].ds, top_i + 1, bottom_i + 1)
                   frame == heap'[stacks'[s].ds[top_i + 1]]
               IN /\ DOMAIN frame = {k \in Keys : Resolve(folded, k) # None}
                  /\ \A k \in DOMAIN frame : Some(frame[k]) = Resolve(folded, k)]_vars

\* C8: smoosh preserves the visible view. For every valid range and every key k, get(k)
\* after smoosh(top_i, bottom_i) is what get(k) was before it.
SmooshPreservesView ==
    [][\A s \in StackIds, top_i \in 0..MaxIdx, bottom_i \in 0..MaxIdx :
         (ValidRange(s, top_i, bottom_i) /\ smoosh(s, top_i, bottom_i))
         => /\ status' = Running
            /\ \A k \in Keys : get(s, k)' = get(s, k)]_vars

\* C9: smoosh frame count. smoosh(top_i, bottom_i) on a valid range lowers num_scopes() by
\* bottom_i - top_i, and the frames below top_i and above bottom_i keep their bindings and
\* their order.
SmooshFrameCount ==
    [][\A s \in StackIds, top_i \in 0..MaxIdx, bottom_i \in 0..MaxIdx :
         (ValidRange(s, top_i, bottom_i) /\ smoosh(s, top_i, bottom_i))
         => /\ status' = Running
            /\ num_scopes(s)' = num_scopes(s) - (bottom_i - top_i)
            /\ \A i \in 1..top_i :
                   heap'[stacks'[s].ds[i]] = heap[stacks[s].ds[i]]
            /\ \A i \in (bottom_i + 2)..Len(stacks[s].ds) :
                   heap'[stacks'[s].ds[i - (bottom_i - top_i)]] = heap[stacks[s].ds[i]]]_vars

\* C10: no-op smoosh. For every index i of a frame, smoosh(i, i) returns and leaves
\* num_scopes(), num_bindings() and get(k) for every key k as they were.
SmooshNoOp ==
    [][\A s \in StackIds, i \in 0..MaxIdx :
         (ValidRange(s, i, i) /\ smoosh(s, i, i))
         => /\ status' = Running
            /\ num_scopes(s)' = num_scopes(s)
            /\ num_bindings(s)' = num_bindings(s)
            /\ \A k \in Keys : get(s, k)' = get(s, k)]_vars

\* C11: driver protocol for nested regions. A conditional, and each iteration of a loop, runs
\* as push of a scope, the writes of the branch, smoosh(0, 0). The closing smoosh(0, 0) on a
\* Smoosher that holds the pushed scope returns, brings num_scopes() back to what it was
\* before the push, and leaves every write of the branch visible to get.
NestedRegionProtocol ==
    [][\A s \in StackIds :
         (num_scopes(s) >= 2 /\ smoosh(s, 0, 0))
         => /\ status' = Running
            /\ num_scopes(s)' = num_scopes(s) - 1
            /\ \A k \in DOMAIN heap[stacks[s].ds[1]] :
                   get(s, k)' = Some(heap[stacks[s].ds[1]][k])]_vars

\* a and b are forks of o, made while o held a frame it still holds.
SiblingForks(o, a, b) ==
    /\ o < a /\ o < b /\ a # b
    /\ SharesFrame(o, a) /\ SharesFrame(o, b) /\ SharesFrame(a, b)

\* What the merge of a and b is to resolve k to: the value either side wrote above the point
\* of divergence, else the view of the frames they share.
MergedView(a, b, k) ==
    IF WrittenAbove(a, b, k) # None THEN WrittenAbove(a, b, k)
    ELSE IF WrittenAbove(b, a, k) # None THEN WrittenAbove(b, a, k)
    ELSE AncestorView(a, b, k)

\* C12: merge order independence. For sibling forks that conflict on no key, merge succeeds
\* with the arguments in either order, and the Smoosher it returns has the same num_scopes()
\* (the shared frames and one more) and the same get(k) for every key in either order.
MergeOrderIndependent ==
    [][\A a \in StackIds, b \in StackIds :
         (/\ merge(a, b)
          /\ \E o \in StackIds : SiblingForks(o, a, b)
          /\ \A k \in Keys : ~Conflict(a, b, k))
         => /\ status' = Running
            /\ Len(stacks') = Len(stacks) + 1
            /\ Len(stacks'[Len(stacks')].ds) = Len(stacks[a].ds) - PointOfDivergence(a, b) + 2
            /\ Len(stacks[a].ds) - PointOfDivergence(a, b) =
                   Len(stacks[b].ds) - PointOfDivergence(b, a)
            /\ \A k \in Keys :
                   /\ HashMap_get(stacks'[Len(stacks')].hm, k) = MergedView(a, b, k)
                   /\ MergedView(a, b, k) = MergedView(b, a, k)]_vars

\* C13: conflict detection is order independent. For three sibling forks of which some pair
\* conflicts, whichever two are merged first, the merge does not panic: it reports
\* MergeConflict for a key the two conflict on, or, when the two do not conflict, returns the
\* merged Smoosher that the third is then merged with.
ConflictOrderIndependent ==
    [][\A x \in StackIds, y \in StackIds :
         (/\ merge(x, y)
          /\ \E o \in StackIds, z \in StackIds :
                 /\ SiblingForks(o, x, y) /\ SiblingForks(o, x, z) /\ SiblingForks(o, y, z)
                 /\ \E k \in Keys :
                        Conflict(x, y, k) \/ Conflict(x, z, k) \/ Conflict(y, z, k))
         => IF \E k \in Keys : Conflict(x, y, k)
            THEN \E k \in Keys : Conflict(x, y, k) /\ status' = MergeConflict(k)
            ELSE status' = Running /\ Len(stacks') = Len(stacks) + 1]_vars

\* C14: fork structure. fork() on a Smoosher with n frames returns a Smoosher with n + 1
\* frames whose frame 0 is empty and whose frames 1..n are the frames 0..n-1 of the original
\* in the same order; get(k) on it equals get(k) on the original for every key, and the
\* original keeps its frames and their bindings.
ForkStructure ==
    [][\A s \in StackIds :
         (num_scopes(s) >= 1 /\ fork(s))
         => /\ status' = Running
            /\ Len(stacks') = Len(stacks) + 1
            /\ LET forked == stacks'[Len(stacks')]
                   n == num_scopes(s)
               IN /\ Len(forked.ds) = n + 1
                  /\ heap'[forked.ds[1]] = HashMap_new
                  /\ \A i \in 1..n : forked.ds[i + 1] = stacks[s].ds[i]
                  /\ \A k \in Keys : HashMap_get(forked.hm, k) = get(s, k)
            /\ stacks'[s] = stacks[s]
            /\ \A i \in 1..num_scopes(s) : heap'[stacks[s].ds[i]] = heap[stacks[s].ds[i]]]_vars

\* The frames h after s.write_access().set(k, v).
FramesAfterSet(h, s, k, v) ==
    [h EXCEPT ![write_access(s)] = SmoosherWr_set(h[write_access(s)], k, v)]

\* C15: parallel-region interleaving independence. For Smooshers forked from the same
\* Smoosher, a write of one branch and a write of another leave the same frames, and so the
\* same outcome of merging them, in whichever order the two writes are run.
InterleavingIndependence ==
    status = Running
    => \A o \in StackIds, a \in StackIds, b \in StackIds :
           SiblingForks(o, a, b)
           => \A ka \in Keys, kb \in Keys, va \in Values, vb \in Values :
                  FramesAfterSet(FramesAfterSet(heap, a, ka, va), b, kb, vb) =
                      FramesAfterSet(FramesAfterSet(heap, b, kb, vb), a, ka, va)

\* top_i <= bottom_i, and the half-open range [top_i, bottom_i) lies within the frames of s.
ValidHalfOpenRange(s, top_i, bottom_i) == top_i <= bottom_i /\ bottom_i <= num_scopes(s)

\* C16: diff result. For a valid range, diff(top_i, bottom_i) returns (the bindings that
\* frames [top_i, bottom_i) resolve and the frames at index >= bottom_i do not resolve to the
\* same value) and leaves the Smoosher and its frames as they were.
DiffReturns ==
    [][\A s \in StackIds, top_i \in 0..MaxIdx, bottom_i \in 0..MaxIdx :
         (ValidHalfOpenRange(s, top_i, bottom_i) /\ diff(s, top_i, bottom_i))
         => /\ status' = Running
            /\ UNCHANGED <<heap, stacks>>]_vars

\* The keys bound in some frame of s with index i, lo <= i < hi.
KeysOfFrames(s, lo, hi) == UNION {DOMAIN heap[stacks[s].ds[i + 1]] : i \in lo..(hi - 1)}

\* C17: list_bound_vars result. list_bound_vars(top_i, bottom_i) returns exactly the keys
\* bound in some frame with index i, top_i <= i < min(bottom_i, num_scopes()).
ListBoundVarsResult ==
    status = Running
    => \A s \in StackIds, top_i \in 0..(MaxCells + 1), bottom_i \in 0..(MaxCells + 1) :
           list_bound_vars(s, top_i, bottom_i) =
               KeysOfFrames(s, top_i,
                            IF bottom_i < num_scopes(s) THEN bottom_i ELSE num_scopes(s))

\* C18: construction. new returns a Smoosher with num_scopes() = 1 whose single frame holds
\* exactly the initial binding it was given, so that get returns the initial value for the
\* initial key and None for every other key.
ConstructionSeedsRoot ==
    [][\A k \in Keys, v \in Values :
         new(k, v)
         => /\ status' = Running
            /\ Len(stacks') = Len(stacks) + 1
            /\ LET root == stacks'[Len(stacks')]
               IN /\ Len(root.ds) = 1
                  /\ heap'[root.ds[1]] = HashMap_insert(HashMap_new, k, v)
                  /\ HashMap_get(root.hm, k) = Some(v)
                  /\ \A j \in Keys \ {k} : HashMap_get(root.hm, j) = None]_vars

\* The signal of a range that is not valid, where a set of keys would be returned.
InvalidRange == {"InvalidRange"}

\* C19: InvalidRange. list_bound_vars called with top_i > bottom_i signals InvalidRange
\* instead of returning a set of keys (smoosh and diff return for no range at all).
InvalidRangeSignalled ==
    status = Running
    => \A s \in StackIds, top_i \in 0..(MaxCells + 1), bottom_i \in 0..(MaxCells + 1) :
           top_i > bottom_i => list_bound_vars(s, top_i, bottom_i) = InvalidRange

\* The failure merge is to report for Smooshers that share no frame.
IncompatibleFork == <<"IncompatibleFork">>

\* C20: IncompatibleFork. merge called on two Smooshers that share no frame signals
\* IncompatibleFork, and returns neither a merged Smoosher nor a MergeConflict.
IncompatibleForkSignalled ==
    [][\A a \in StackIds, b \in StackIds :
         (a # b /\ ~SharesFrame(a, b) /\ merge(a, b))
         => /\ status' = IncompatibleFork
            /\ stacks' = stacks]_vars

\* The Smooshers whose deque holds cell c.
ReferencedBy(c) == {s \in StackIds : \E i \in 1..Len(stacks[s].ds) : stacks[s].ds[i] = c}

\* C21: copy-on-write invariant. No call that returns changes the bindings of a frame that
\* more than one live Smoosher holds: a Smoosher about to write into a frame that another
\* Smoosher holds too writes into a copy of its own.
CopyOnWrite ==
    [][status' = Running
       => \A c \in 1..Len(heap) :
              Cardinality(ReferencedBy(c)) >= 2 => heap'[c] = heap[c]]_vars

\* C22: flattened-cache consistency. In every state the field hm of a Smoosher holds exactly
\* the bindings that fully smooshing its frames gives: it binds the keys that some frame
\* binds, each to the value of the shallowest frame that binds it, and num_bindings() counts
\* those keys.
CacheConsistency ==
    \A s \in StackIds :
        /\ DOMAIN stacks[s].hm = {k \in Keys : Resolve(stacks[s].ds, k) # None}
        /\ \A k \in DOMAIN stacks[s].hm : Some(stacks[s].hm[k]) = Resolve(stacks[s].ds, k)
        /\ num_bindings(s) = Cardinality({k \in Keys : Resolve(stacks[s].ds, k) # None})

\* The keys a wrote above its point of divergence from b.
KeysWrittenAbove(a, b) == {k \in Keys : WrittenAbove(a, b, k) # None}

\* C23: merge result shape. A merge that succeeds returns a Smoosher whose frames are the
\* frames the two sides share, in their order, under exactly one new frame that holds the
\* writes of both sides; its num_scopes() is the number of shared frames plus one, however
\* many frames each side pushed above the point of divergence.
MergeResultShape ==
    [][\A a \in StackIds, b \in StackIds :
         (/\ merge(a, b)
          /\ a # b
          /\ SharesFrame(a, b)
          /\ \A k \in Keys : ~Conflict(a, b, k))
         => /\ status' = Running
            /\ Len(stacks') = Len(stacks) + 1
            /\ LET merged == stacks'[Len(stacks')]
                   ancestors == SubSeq(stacks[a].ds, PointOfDivergence(a, b), Len(stacks[a].ds))
               IN /\ Len(merged.ds) = Len(ancestors) + 1
                  /\ Tail(merged.ds) = ancestors
                  /\ Head(merged.ds) \notin 1..Len(heap)
                  /\ DOMAIN heap'[Head(merged.ds)] =
                         KeysWrittenAbove(a, b) \cup KeysWrittenAbove(b, a)
                  /\ \A i \in 1..Len(ancestors) : heap'[ancestors[i]] = heap[ancestors[i]]]_vars

\* C24: never empty. Every live Smoosher has num_scopes() >= 1, so write_access always finds
\* a front frame to write into and never reaches its panic on an empty deque.
NeverEmpty ==
    /\ \A s \in StackIds : num_scopes(s) >= 1 /\ write_access(s) # 0
    /\ status # Panicked("write_access")

\* A Smoosher that a scope was pushed on, with a fork of it, after a write into the front
\* frame they hold together.
NeverEmptyWitness ==
    /\ status = Running
    /\ \E s \in StackIds, f \in StackIds :
          /\ s < f
          /\ num_scopes(s) = 2
          /\ num_scopes(f) = 1
          /\ stacks[f].ds[1] = stacks[s].ds[1]
          /\ DOMAIN heap[write_access(f)] # {}

====
